---- MODULE Spec2Model ----
(***************************************************************************)
(* LL(1) grammar analysis of src/ex1/grammar.py (NULLABLE, FIRST, FOLLOW,  *)
(* SELECT, conflict scan) and is_LL1 of src/ex1/grammar_with_extra_checks. *)
(* A grammar is a sequence of rules <<head, body>>, body a sequence of     *)
(* symbols.  One analysis of one grammar is a run of the state machine:    *)
(* every pass of a "while changing" loop is one step.  One parse of one    *)
(* token list by JsonParser (src/ex1/parser.py) is a second state machine: *)
(* every dispatch, match, call and return is one step.                     *)
(***************************************************************************)
EXTENDS Integers, Sequences, FiniteSets, TLC

\* the analysis of one grammar
VARIABLES grammar, pc, terminals, nonterminals, nullable, first, follow,
          select, changing, ll1, conflicts

\* one JsonParser: Parser.tokens, Parser.pos, Parser.t, the call stack of the
\* parse_<nonterminal> methods, the value parse() returns, and where it is
VARIABLES tokens, pos, t, value, stack, result, err, ppc

avars == <<grammar, pc, terminals, nonterminals, nullable, first, follow,
           select, changing, ll1, conflicts>>

pvars == <<tokens, pos, t, value, stack, result, err, ppc>>

\* the invocations of the analysis that run side by side
VARIABLES runs

cvars == <<runs>>

vars == <<avars, pvars, cvars>>

\* ---------------------------------------------------------------- symbols
\* symbols.py: the end marker
EOF == "EOF"

\* ---------------------------------------------------------------- inputs
\* Longest grammar (number of rules) that is analysed.
MaxRules == 3

\* The rules grammars are built from.  Any sequence of at most MaxRules of
\* them is an input: rules may repeat, a body may name a symbol that heads
\* no rule of the grammar, rules may be unreachable from the first head.
RulePool ==
  { <<"S", <<"A", "B">> >>,
    <<"S", <<"A", "B", "b">> >>,
    <<"S", <<"A", "a", "b">> >>,
    <<"S", <<"S", "a">> >>,
    <<"S", <<"S">> >>,
    <<"S", <<"b">> >>,
    <<"A", << >> >>,
    <<"A", <<"a">> >>,
    <<"A", <<"A">> >>,
    <<"A", <<"B", "a">> >>,
    <<"B", << >> >>,
    <<"B", <<"b">> >>,
    <<"B", <<"A", "b">> >>,
    <<"B", <<"A", "A">> >>,
    <<"B", <<"S">> >> }

RECURSIVE SeqsUpTo(_, _)
SeqsUpTo(S, n) ==
  IF n = 0 THEN { << >> }
  ELSE LET shorter == SeqsUpTo(S, n - 1)
       IN  shorter \cup { Append(g, r) : g \in shorter, r \in S }

Grammars == SeqsUpTo(RulePool, MaxRules)

\* ---------------------------------------------------------------- fixtures
\* grammar.py, lines 16-24
grammar_recitation ==
  << << "S", << "ID", "ASSIGN", "E" >> >>,
     << "S", << "IF", "LP", "E", "RP", "S", "ELSE", "S" >> >>,
     << "E", << "T", "EP" >> >>,
     << "T", << "ID" >> >>,
     << "T", << "LP", "E", "RP" >> >>,
     << "EP", << >> >>,
     << "EP", << "PLUS", "E" >> >> >>

\* grammar.py, lines 211-223
grammar_json_4a ==
  << << "obj", << "LB", "RB" >> >>,
     << "obj", << "LB", "members", "RB" >> >>,
     << "members", << "keyvalue" >> >>,
     << "members", << "members", "COMMA", "members" >> >>,
     << "keyvalue", << "STRING", "COLON", "value" >> >>,
     << "value", << "STRING" >> >>,
     << "value", << "INT" >> >>,
     << "value", << "obj" >> >> >>

\* grammar.py, lines 225-239
grammar_json_4b ==
  << << "obj", << "LB", "obj_right" >> >>,
     << "obj_right", << "RB" >> >>,
     << "obj_right", << "members", "RB" >> >>,
     << "members", << "keyvalue", "members_right" >> >>,
     << "members_right", << "COMMA", "members" >> >>,
     << "members_right", << >> >>,
     << "keyvalue", << "STRING", "COLON", "value" >> >>,
     << "value", << "STRING" >> >>,
     << "value", << "INT" >> >>,
     << "value", << "obj" >> >> >>

\* grammar.py, lines 241-257
grammar_json_4c ==
  << << "obj", << "LB", "obj_right" >> >>,
     << "obj_right", << "RB" >> >>,
     << "obj_right", << "members", "RB" >> >>,
     << "members", << "keyvalue", "members_right" >> >>,
     << "members_right", << "COMMA", "members" >> >>,
     << "members_right", << >> >>,
     << "keyvalue", << "STRING", "COLON", "value" >> >>,
     << "value", << "STRING" >> >>,
     << "value", << "INT" >> >>,
     << "value", << "obj" >> >> >>

\* grammar.py, lines 259-280
grammar_json_6 ==
  << << "obj", << "LB", "obj_right_set" >> >>,
     << "obj_right_set", << "RB" >> >>,
     << "obj_right_set", << "members_set", "RB" >> >>,
     << "obj", << "LS", "obj_right_arr" >> >>,
     << "obj_right_arr", << "RS" >> >>,
     << "obj_right_arr", << "members_arr", "RS" >> >>,
     << "members_set", << "keyvalue", "members_right_set" >> >>,
     << "members_right_set", << "COMMA", "members_set" >> >>,
     << "members_right_set", << >> >>,
     << "members_arr", << "keyvalue", "members_right_arr" >> >>,
     << "members_right_arr", << "COMMA", "members_arr" >> >>,
     << "members_right_arr", << >> >>,
     << "keyvalue", << "STRING", "COLON", "value" >> >>,
     << "value", << "STRING" >> >>,
     << "value", << "INT" >> >>,
     << "value", << "obj" >> >> >>

\* grammar_with_extra_checks.py: the first 9 grammars of the list tests
tests ==
  << << << "VAR4", << "TERM6", "TERM6", "TERM7" >> >>,
        << "VAR1", << "TERM2", "TERM7", "TERM5" >> >>,
        << "VAR3", << >> >>,
        << "VAR1", << "VAR4", "VAR0" >> >>,
        << "VAR2", << >> >>,
        << "VAR0", << >> >> >>,
     << << "VAR1", << "TERM5" >> >>,
        << "VAR2", << "VAR0", "VAR2", "VAR0" >> >>,
        << "VAR3", << "TERM1", "TERM9", "TERM2", "TERM5" >> >>,
        << "VAR2", << "TERM4" >> >>,
        << "VAR0", << "VAR0" >> >>,
        << "VAR4", << "TERM7", "TERM9", "TERM9" >> >>,
        << "VAR1", << >> >>,
        << "VAR2", << "VAR4" >> >>,
        << "VAR2", << >> >>,
        << "VAR0", << "VAR4", "VAR4", "TERM7" >> >> >>,
     << << "VAR2", << "TERM3", "TERM3" >> >>,
        << "VAR2", << "TERM3", "TERM1", "TERM9" >> >>,
        << "VAR1", << "TERM2" >> >>,
        << "VAR3", << "TERM4", "TERM4", "TERM4", "TERM7", "TERM4", "TERM0", "TERM7" >> >> >>,
     << << "VAR0", << >> >>,
        << "VAR1", << "VAR3", "TERM4", "TERM7", "TERM7", "TERM3" >> >>,
        << "VAR3", << "TERM2", "TERM6", "TERM1", "TERM8", "TERM9", "TERM1", "TERM2" >> >>,
        << "VAR0", << "TERM8", "TERM0", "TERM6" >> >>,
        << "VAR1", << >> >>,
        << "VAR3", << "VAR0", "TERM0", "TERM8", "TERM9", "TERM2", "VAR4" >> >>,
        << "VAR0", << >> >>,
        << "VAR2", << "TERM1", "TERM5" >> >> >>,
     << << "VAR2", << "TERM3", "TERM8" >> >>,
        << "VAR1", << >> >>,
        << "VAR2", << "TERM1" >> >>,
        << "VAR0", << >> >>,
        << "VAR4", << "TERM0", "VAR1" >> >>,
        << "VAR3", << "TERM8", "TERM1" >> >>,
        << "VAR2", << >> >>,
        << "VAR1", << >> >>,
        << "VAR2", << "TERM3" >> >> >>,
     << << "VAR0", << "VAR3", "TERM1", "TERM3" >> >>,
        << "VAR4", << "TERM3", "TERM9", "VAR2" >> >>,
        << "VAR4", << "TERM5", "VAR4", "VAR1", "VAR4" >> >> >>,
     << << "VAR4", << >> >> >>,
     << << "VAR2", << "TERM2", "TERM2", "TERM5" >> >>,
        << "VAR3", << "TERM5", "TERM3", "TERM2" >> >>,
        << "VAR3", << "TERM3", "TERM1", "TERM8", "TERM7", "TERM0", "TERM1", "TERM6", "TERM0", "TERM3" >> >>,
        << "VAR2", << "VAR3" >> >>,
        << "VAR3", << "VAR0", "TERM9", "TERM3", "VAR2", "TERM4", "VAR4", "TERM4" >> >>,
        << "VAR3", << "VAR0", "TERM1", "TERM3" >> >> >>,
     << << "VAR2", << "VAR3", "VAR1", "VAR0", "VAR2" >> >>,
        << "VAR0", << "VAR4" >> >>,
        << "VAR3", << "TERM9", "TERM2", "TERM1", "TERM6", "TERM3" >> >>,
        << "VAR3", << "TERM4", "VAR1" >> >>,
        << "VAR4", << "TERM5", "TERM8", "TERM2", "TERM4" >> >>,
        << "VAR3", << "TERM5" >> >> >> >>

\* the grammars main() analyses, and the first grammars of tests
Fixtures ==
  { grammar_recitation, grammar_json_4a, grammar_json_4b, grammar_json_4c,
    grammar_json_6 } \cup { tests[k] : k \in DOMAIN tests }

\* ---------------------------------------------------------------- helpers
Range(s) == { s[k] : k \in DOMAIN s }

RuleHead(r) == r[1]
RuleBody(r) == r[2]

\* body[lo:hi] of Python, with 0-based lo (inclusive) and hi (exclusive)
Slice(body, lo, hi) == [ k \in 1..(IF hi > lo THEN hi - lo ELSE 0) |-> body[lo + k] ]

\* is_nullable(token_stream, nullables)
is_nullable(token_stream, nullables) ==
  \A k \in DOMAIN token_stream : token_stream[k] \in nullables

\* A classification that forgets to take the heads out of the body symbols.
find_terminals_keep_heads(g) ==
  LET nts  == { RuleHead(g[i]) : i \in DOMAIN g }
      syms == UNION { Range(RuleBody(g[i])) : i \in DOMAIN g }
  IN  << syms, nts >>

\* find_terminals_and_nonterminals(grammar): <<terminals, nonterminals>>
find_terminals_and_nonterminals(g) ==
  LET nts  == { RuleHead(g[i]) : i \in DOMAIN g }
      syms == UNION { Range(RuleBody(g[i])) : i \in DOMAIN g }
  IN  << syms \ nts, nts >>

\* ---------------------------------------------------------------- nullable
\* calculate_nullable, lines 36-39: the heads of the epsilon rules
NullableInit(g) == { RuleHead(g[i]) : i \in { k \in DOMAIN g : RuleBody(g[k]) = << >> } }

\* A pass that lets a rule justify its own head (A -> A makes A nullable).
NullableRuleSelf(r, n) ==
  IF Range(RuleBody(r)) \subseteq (n \cup { RuleHead(r) }) /\ RuleHead(r) \notin n
  THEN n \cup { RuleHead(r) } ELSE n

\* One rule of the pass, lines 44-45; the set is updated in place, so a later
\* rule of the same pass sees what an earlier one added.
NullableRule(r, n) ==
  IF Range(RuleBody(r)) \subseteq n /\ RuleHead(r) \notin n THEN n \cup { RuleHead(r) } ELSE n

\* calculate_nullable, lines 43-46: one full pass over the rules from rule i on
RECURSIVE NullablePassFrom(_, _, _)
NullablePassFrom(g, i, n) ==
  IF i > Len(g) THEN n ELSE NullablePassFrom(g, i + 1, NullableRule(g[i], n))

NullablePass(g, n) == NullablePassFrom(g, 1, n)

\* ---------------------------------------------------------------- first
\* An initialisation that forgets First(t) = {t} for the terminals.
FirstInitEmpty(ts, nts) == [ x \in ts \cup nts |-> { } ]

\* calculate_first, lines 54-58
FirstInit(ts, nts) == [ x \in ts \cup nts |-> IF x \in ts THEN { x } ELSE { } ]

\* A pass that ignores the nullable-prefix test (every body position counts).
FirstPosAny(r, k, n, f) ==
  [ f EXCEPT ![RuleHead(r)] = @ \cup f[RuleBody(r)[k]] ]

\* A pass that makes the union symmetric: the body symbol is updated too.
FirstPosBoth(r, k, n, f) ==
  IF is_nullable(Slice(RuleBody(r), 0, k - 1), n)
  THEN LET u == f[RuleHead(r)] \cup f[RuleBody(r)[k]]
       IN  [ f EXCEPT ![RuleHead(r)] = u, ![RuleBody(r)[k]] = u ]
  ELSE f

\* lines 64-68 for one position k (1-based) of one rule: add First(body[k])
\* to First[head] when body[0:k-1] is nullable
FirstPos(r, k, n, f) ==
  IF is_nullable(Slice(RuleBody(r), 0, k - 1), n)
  THEN [ f EXCEPT ![RuleHead(r)] = @ \cup f[RuleBody(r)[k]] ]
  ELSE f

RECURSIVE FirstRuleFrom(_, _, _, _)
FirstRuleFrom(r, k, n, f) ==
  IF k > Len(RuleBody(r)) THEN f ELSE FirstRuleFrom(r, k + 1, n, FirstPos(r, k, n, f))

\* calculate_first, lines 62-68: one full pass over the rules from rule i on
\* (a rule that adds nothing leaves the mapping as it is; the comparison makes
\* the evaluation proceed rule by rule)
RECURSIVE FirstPassFrom(_, _, _, _)
FirstPassFrom(g, i, n, f) ==
  IF i > Len(g) THEN f
  ELSE LET fr == FirstRuleFrom(g[i], 1, n, f)
       IN  IF fr = f THEN FirstPassFrom(g, i + 1, n, f)
           ELSE FirstPassFrom(g, i + 1, n, fr)

FirstPass(g, n, f) == FirstPassFrom(g, 1, n, f)

\* ---------------------------------------------------------------- follow
\* An initialisation that takes the head of the last rule for the start symbol.
FollowInitLast(g, nts) == [ a \in nts |-> IF a = RuleHead(g[Len(g)]) THEN { EOF } ELSE { } ]

\* calculate_follow, lines 83-87 (grammar[0][0] exists: the grammar is not empty)
FollowInit(g, nts) == [ a \in nts |-> IF a = RuleHead(g[1]) THEN { EOF } ELSE { } ]

\* Rule (a) that assigns Follow(head) instead of adding it.
FollowAAssign(r, k, ts, n, fo) ==
  IF RuleBody(r)[k] \in ts THEN fo
  ELSE IF is_nullable(Slice(RuleBody(r), k, Len(RuleBody(r))), n)
       THEN [ fo EXCEPT ![RuleBody(r)[k]] = fo[RuleHead(r)] ]
       ELSE fo

\* lines 94-100 for position k of one rule: add Follow(head) to Follow(body[k])
\* when body[k] is no terminal and body[k+1:] is nullable
FollowA(r, k, ts, n, fo) ==
  IF RuleBody(r)[k] \in ts THEN fo
  ELSE IF is_nullable(Slice(RuleBody(r), k, Len(RuleBody(r))), n)
       THEN [ fo EXCEPT ![RuleBody(r)[k]] = @ \cup fo[RuleHead(r)] ]
       ELSE fo

RECURSIVE FollowAFrom(_, _, _, _, _)
FollowAFrom(r, k, ts, n, fo) ==
  IF k > Len(RuleBody(r)) THEN fo
  ELSE FollowAFrom(r, k + 1, ts, n, FollowA(r, k, ts, n, fo))

\* Rule (b) that looks at the adjacent symbol only (no nullable interior).
FollowBAdjacent(r, k, m, n, f, fo) ==
  IF m = k + 1
  THEN [ fo EXCEPT ![RuleBody(r)[k]] = @ \cup f[RuleBody(r)[m]] ]
  ELSE fo

\* lines 106-110 for positions k < m of one rule: add First(body[m]) to
\* Follow(body[k]) when body[k+1:m] (exclusive of m) is nullable
FollowB(r, k, m, n, f, fo) ==
  IF is_nullable(Slice(RuleBody(r), k, m - 1), n)
  THEN [ fo EXCEPT ![RuleBody(r)[k]] = @ \cup f[RuleBody(r)[m]] ]
  ELSE fo

RECURSIVE FollowBInner(_, _, _, _, _, _)
FollowBInner(r, k, m, n, f, fo) ==
  IF m > Len(RuleBody(r)) THEN fo
  ELSE FollowBInner(r, k, m + 1, n, f, FollowB(r, k, m, n, f, fo))

\* lines 102-110: positions k = 1 .. len(body)-1
RECURSIVE FollowBFrom(_, _, _, _, _, _)
FollowBFrom(r, k, ts, n, f, fo) ==
  IF k > Len(RuleBody(r)) - 1 THEN fo
  ELSE FollowBFrom(r, k + 1, ts, n, f,
                   IF RuleBody(r)[k] \in ts THEN fo
                   ELSE FollowBInner(r, k, k + 1, n, f, fo))

\* A rule step that treats the end of every body as the end of the input: the
\* last symbol of the body, when no terminal, gets EOF.
FollowRuleEOF(r, ts, n, f, fo) ==
  LET h == FollowBFrom(r, 1, ts, n, f, FollowAFrom(r, 1, ts, n, fo))
      b == RuleBody(r)
  IN  IF b # << >> /\ b[Len(b)] \notin ts
      THEN [ h EXCEPT ![b[Len(b)]] = @ \cup { EOF } ]
      ELSE h

\* lines 92-110 for one rule: loop (a) then loop (b)
FollowRule(r, ts, n, f, fo) ==
  FollowBFrom(r, 1, ts, n, f, FollowAFrom(r, 1, ts, n, fo))

RECURSIVE FollowPassFrom(_, _, _, _, _, _)
FollowPassFrom(g, i, ts, n, f, fo) ==
  IF i > Len(g) THEN fo
  ELSE LET fr == FollowRule(g[i], ts, n, f, fo)
       IN  IF fr = fo THEN FollowPassFrom(g, i + 1, ts, n, f, fo)
           ELSE FollowPassFrom(g, i + 1, ts, n, f, fr)

FollowPass(g, ts, n, f, fo) == FollowPassFrom(g, 1, ts, n, f, fo)

\* ---------------------------------------------------------------- select
\* A walk that never breaks: FIRST of every symbol of the body.
RECURSIVE SelectWalkNoBreak(_, _, _, _, _)
SelectWalkNoBreak(body, k, n, f, acc) ==
  IF k > Len(body) THEN acc
  ELSE SelectWalkNoBreak(body, k + 1, n, f, acc \cup f[body[k]])

\* calculate_select, lines 124-128: walk the body from position k, adding
\* first[item], and stop after the first item that is not nullable
RECURSIVE SelectWalk(_, _, _, _, _)
SelectWalk(body, k, n, f, acc) ==
  IF k > Len(body) THEN acc
  ELSE LET acc2 == acc \cup f[body[k]]
       IN  IF ~ is_nullable(<< body[k] >>, n) THEN acc2
           ELSE SelectWalk(body, k + 1, n, f, acc2)

\* A rule whose walk stops before the first symbol that is not nullable
\* (the stricter "only nullable prefix" policy).
SelectRulePrefixOnly(r, n, f, fo) ==
  UNION { f[RuleBody(r)[k]] : k \in { m \in DOMAIN RuleBody(r) :
                                        is_nullable(Slice(RuleBody(r), 0, m), n) } }
    \cup (IF is_nullable(RuleBody(r), n) THEN fo[RuleHead(r)] ELSE { })

\* lines 122-132 for one rule
SelectRule(r, n, f, fo) ==
  SelectWalk(RuleBody(r), 1, n, f, { })
    \cup (IF is_nullable(RuleBody(r), n) THEN fo[RuleHead(r)] ELSE { })

\* calculate_select: the dictionary is keyed by the rule value (head, body)
calculate_select(g, n, f, fo) == [ r \in Range(g) |-> SelectRule(r, n, f, fo) ]

\* ---------------------------------------------------------------- LL(1) scan
\* A test that forgets to compare the heads.
ConflictAnyHead(g, sel, i, j) ==
  (sel[g[i]] \cap sel[g[j]]) # { }

\* analyze_grammar lines 201 / is_LL1 line 226: the test on one pair i < j
Conflict(g, sel, i, j) ==
  RuleHead(g[i]) = RuleHead(g[j]) /\ (sel[g[i]] \cap sel[g[j]]) # { }

\* An inner loop that stops at the first conflict it finds for i.
RECURSIVE ScanInnerBreak(_, _, _, _, _)
ScanInnerBreak(g, sel, i, j, acc) ==
  IF j > Len(g) THEN acc
  ELSE IF Conflict(g, sel, i, j) THEN Append(acc, << i, j >>)
       ELSE ScanInnerBreak(g, sel, i, j + 1, acc)

\* the inner loop over j for one i: the pairs it reports, in order, after acc
RECURSIVE ScanInner(_, _, _, _, _)
ScanInner(g, sel, i, j, acc) ==
  IF j > Len(g) THEN acc
  ELSE IF Conflict(g, sel, i, j) THEN ScanInner(g, sel, i, j + 1, Append(acc, << i, j >>))
       ELSE ScanInner(g, sel, i, j + 1, acc)

\* the outer loop over i
RECURSIVE ScanFrom(_, _, _, _)
ScanFrom(g, sel, i, acc) ==
  IF i > Len(g) THEN acc
  ELSE ScanFrom(g, sel, i + 1, acc \o ScanInner(g, sel, i, i + 1, << >>))

\* the pairs analyze_grammar reports, in the order it prints them
Scan(g, sel) == ScanFrom(g, sel, 1, << >>)

\* ---------------------------------------------------------------- the run
NoMap == << >>

\* ---------------------------------------------------------------- whole calls
\* calculate_nullable, lines 40-47: the loop "while changing" from the set n on
RECURSIVE NullableLoop(_, _)
NullableLoop(g, n) ==
  LET m == NullablePass(g, n)
  IN  IF m = n THEN n ELSE NullableLoop(g, m)

calculate_nullable(g) == NullableLoop(g, NullableInit(g))

\* calculate_first, lines 59-69
RECURSIVE FirstLoop(_, _, _)
FirstLoop(g, n, f) ==
  LET h == FirstPass(g, n, f)
  IN  IF h = f THEN f ELSE FirstLoop(g, n, h)

calculate_first(ts, nts, g, n) == FirstLoop(g, n, FirstInit(ts, nts))

\* calculate_follow, lines 89-112
RECURSIVE FollowLoop(_, _, _, _, _)
FollowLoop(g, ts, n, f, fo) ==
  LET h == FollowPass(g, ts, n, f, fo)
  IN  IF h = fo THEN fo ELSE FollowLoop(g, ts, n, f, h)

\* (on a grammar with a first rule)
calculate_follow(ts, nts, g, n, f) == FollowLoop(g, ts, n, f, FollowInit(g, nts))

\* no invocations side by side
PairIdle == runs = << >>

\* the parser is not in use during an analysis
ParserIdle ==
  /\ tokens = << >>
  /\ pos = -1
  /\ t = EOF
  /\ value = EOF
  /\ stack = << >>
  /\ result = << >>
  /\ err = << >>
  /\ ppc = "idle"

\* the state in which analyze_grammar / is_LL1 is entered with grammar g
AnalysisEntry(g) ==
  /\ grammar = g
  /\ pc = "start"
  /\ terminals = { }
  /\ nonterminals = { }
  /\ nullable = { }
  /\ first = NoMap
  /\ follow = NoMap
  /\ select = NoMap
  /\ changing = FALSE
  /\ ll1 = FALSE
  /\ conflicts = << >>

\* no analysis is running
AnalyzerIdle ==
  /\ grammar = << >>
  /\ pc = "idle"
  /\ terminals = { }
  /\ nonterminals = { }
  /\ nullable = { }
  /\ first = NoMap
  /\ follow = NoMap
  /\ select = NoMap
  /\ changing = FALSE
  /\ ll1 = FALSE
  /\ conflicts = << >>

Init ==
  /\ \E g \in Grammars : AnalysisEntry(g)
  /\ ParserIdle
  /\ PairIdle

\* analyze_grammar line 171 / is_LL1 line 215
FindSymbols ==
  /\ pc = "start"
  /\ terminals' = find_terminals_and_nonterminals(grammar)[1]
  /\ nonterminals' = find_terminals_and_nonterminals(grammar)[2]
  /\ pc' = "nullable_init"
  /\ UNCHANGED << grammar, nullable, first, follow, select, changing, ll1, conflicts >>
  /\ UNCHANGED pvars
  /\ UNCHANGED cvars

\* calculate_nullable up to the loop
NullableStart ==
  /\ pc = "nullable_init"
  /\ nullable' = NullableInit(grammar)
  /\ changing' = TRUE
  /\ pc' = "nullable"
  /\ UNCHANGED << grammar, terminals, nonterminals, first, follow, select, ll1, conflicts >>
  /\ UNCHANGED pvars
  /\ UNCHANGED cvars

\* A loop that runs a single pass and never looks at what it changed.
NullableStepOnce ==
  /\ pc = "nullable"
  /\ changing
  /\ nullable' = NullablePass(grammar, nullable)
  /\ changing' = FALSE
  /\ UNCHANGED << grammar, pc, terminals, nonterminals, first, follow, select, ll1, conflicts >>
  /\ UNCHANGED pvars
  /\ UNCHANGED cvars

\* one iteration of "while changing" of calculate_nullable
NullableStep ==
  /\ pc = "nullable"
  /\ changing
  /\ nullable' = NullablePass(grammar, nullable)
  /\ changing' = (nullable' # nullable)
  /\ UNCHANGED << grammar, pc, terminals, nonterminals, first, follow, select, ll1, conflicts >>
  /\ UNCHANGED pvars
  /\ UNCHANGED cvars

\* calculate_nullable returns; calculate_first up to the loop
FirstStart ==
  /\ pc = "nullable"
  /\ ~ changing
  /\ first' = FirstInit(terminals, nonterminals)
  /\ changing' = TRUE
  /\ pc' = "first"
  /\ UNCHANGED << grammar, terminals, nonterminals, nullable, follow, select, ll1, conflicts >>
  /\ UNCHANGED pvars
  /\ UNCHANGED cvars

\* one iteration of "while changing" of calculate_first
FirstStep ==
  /\ pc = "first"
  /\ changing
  /\ first' = FirstPass(grammar, nullable, first)
  /\ changing' = (first' # first)
  /\ UNCHANGED << grammar, pc, terminals, nonterminals, nullable, follow, select, ll1, conflicts >>
  /\ UNCHANGED pvars
  /\ UNCHANGED cvars

\* calculate_first returns; calculate_follow up to the loop.  On the empty
\* grammar line 86 (grammar[0][0]) raises IndexError.
FollowStart ==
  /\ pc = "first"
  /\ ~ changing
  /\ IF Len(grammar) = 0
     THEN /\ pc' = "raised"
          /\ UNCHANGED << follow, changing >>
     ELSE /\ follow' = FollowInit(grammar, nonterminals)
          /\ changing' = TRUE
          /\ pc' = "follow"
  /\ UNCHANGED << grammar, terminals, nonterminals, nullable, first, select, ll1, conflicts >>
  /\ UNCHANGED pvars
  /\ UNCHANGED cvars

\* A loop that sets changing after every pass, whatever the pass added.
FollowStepForever ==
  /\ pc = "follow"
  /\ changing
  /\ follow' = FollowPass(grammar, terminals, nullable, first, follow)
  /\ changing' = TRUE
  /\ UNCHANGED << grammar, pc, terminals, nonterminals, nullable, first, select, ll1, conflicts >>
  /\ UNCHANGED pvars
  /\ UNCHANGED cvars

\* one iteration of "while changing" of calculate_follow
FollowStep ==
  /\ pc = "follow"
  /\ changing
  /\ follow' = FollowPass(grammar, terminals, nullable, first, follow)
  /\ changing' = (follow' # follow)
  /\ UNCHANGED << grammar, pc, terminals, nonterminals, nullable, first, select, ll1, conflicts >>
  /\ UNCHANGED pvars
  /\ UNCHANGED cvars

\* A calculate_select that starts the set of a rule as the FIRST set of the
\* first body symbol itself, so that what it adds lands in that FIRST set.
SelectAliased ==
  /\ pc = "follow"
  /\ ~ changing
  /\ select' = calculate_select(grammar, nullable, first, follow)
  /\ first' = [ x \in DOMAIN first |->
                  first[x] \cup UNION { select'[r] : r \in { q \in Range(grammar) :
                                           RuleBody(q) # << >> /\ RuleBody(q)[1] = x } } ]
  /\ pc' = "select"
  /\ UNCHANGED << grammar, terminals, nonterminals, nullable, follow, changing, ll1, conflicts >>
  /\ UNCHANGED pvars
  /\ UNCHANGED cvars

\* calculate_follow returns; calculate_select
Select ==
  /\ pc = "follow"
  /\ ~ changing
  /\ select' = calculate_select(grammar, nullable, first, follow)
  /\ pc' = "select"
  /\ UNCHANGED << grammar, terminals, nonterminals, nullable, first, follow, changing, ll1, conflicts >>
  /\ UNCHANGED pvars
  /\ UNCHANGED cvars

\* A verdict that ignores the scan.
CheckLL1Always ==
  /\ pc = "select"
  /\ conflicts' = Scan(grammar, select)
  /\ ll1' = TRUE
  /\ pc' = "done"
  /\ UNCHANGED << grammar, terminals, nonterminals, nullable, first, follow, select, changing >>
  /\ UNCHANGED pvars
  /\ UNCHANGED cvars

\* the pairwise scan of analyze_grammar and is_LL1
CheckLL1 ==
  /\ pc = "select"
  /\ conflicts' = Scan(grammar, select)
  /\ ll1' = (conflicts' = << >>)
  /\ pc' = "done"
  /\ UNCHANGED << grammar, terminals, nonterminals, nullable, first, follow, select, changing >>
  /\ UNCHANGED pvars
  /\ UNCHANGED cvars

Next ==
  \/ FindSymbols
  \/ NullableStart
  \/ NullableStep
  \/ FirstStart
  \/ FirstStep
  \/ FollowStart
  \/ FollowStep
  \/ Select
  \/ CheckLL1

Spec == Init /\ [][Next]_vars

\* the analysis of the fixtures of the sources
InitFixtures ==
  /\ \E g \in Fixtures : AnalysisEntry(g)
  /\ ParserIdle
  /\ PairIdle

SpecFixtures == InitFixtures /\ [][Next]_vars

\* ---------------------------------------------------------------- run to the end
\* The analysis is sequential code: a step that can be taken is taken. The
\* grammars are the short ones of the pool and the grammars of the sources.
MaxLoopRules == 2

LoopGrammars == SeqsUpTo(RulePool, MaxLoopRules) \cup Fixtures

InitLoops ==
  /\ \E g \in LoopGrammars : AnalysisEntry(g)
  /\ ParserIdle
  /\ PairIdle

SpecLoops == InitLoops /\ [][Next]_vars /\ WF_vars(Next)

\* ---------------------------------------------------------------- side by side
\* Two invocations of the analysis whose steps interleave. Each invocation is
\* a record of the names its calls bind: the arguments and the working sets
\* the functions create (lines 36, 54, 83, 119); the module binds no name that
\* a function writes.
PairGrammars ==
  { << << "S", << "A", "B" >> >>, << "A", << >> >>, << "B", << "b" >> >> >>,
    << << "S", << "A", "B" >> >>, << "B", << "A", "A" >> >>, << "A", << >> >> >>,
    << << "S", << "A", "a", "b" >> >>, << "A", << "a" >> >>, << "A", << >> >> >>,
    << << "A", << "B", "a" >> >>, << "B", << >> >>, << "B", << "S" >> >>,
       << "S", << "b" >> >> >>,
    << << "B", << "A", "b" >> >>, << "A", << "a" >> >>, << "S", << "S", "a" >> >> >>,
    grammar_recitation,
    grammar_json_4b }

RunEntry(g) ==
  [ grammar |-> g, pc |-> "start", terminals |-> { }, nonterminals |-> { },
    nullable |-> { }, first |-> NoMap, follow |-> NoMap, select |-> NoMap,
    changing |-> FALSE ]

\* the next step of one invocation: the steps of the analysis, on its record
StepRun(r) ==
  CASE r.pc = "start" ->
         [ r EXCEPT !.terminals = find_terminals_and_nonterminals(r.grammar)[1],
                    !.nonterminals = find_terminals_and_nonterminals(r.grammar)[2],
                    !.pc = "nullable_init" ]
    [] r.pc = "nullable_init" ->
         [ r EXCEPT !.nullable = NullableInit(r.grammar), !.changing = TRUE,
                    !.pc = "nullable" ]
    [] r.pc = "nullable" /\ r.changing ->
         LET m == NullablePass(r.grammar, r.nullable)
         IN  [ r EXCEPT !.nullable = m, !.changing = (m # r.nullable) ]
    [] r.pc = "nullable" /\ ~ r.changing ->
         [ r EXCEPT !.first = FirstInit(r.terminals, r.nonterminals),
                    !.changing = TRUE, !.pc = "first" ]
    [] r.pc = "first" /\ r.changing ->
         LET h == FirstPass(r.grammar, r.nullable, r.first)
         IN  [ r EXCEPT !.first = h, !.changing = (h # r.first) ]
    [] r.pc = "first" /\ ~ r.changing ->
         IF Len(r.grammar) = 0 THEN [ r EXCEPT !.pc = "raised" ]
         ELSE [ r EXCEPT !.follow = FollowInit(r.grammar, r.nonterminals),
                         !.changing = TRUE, !.pc = "follow" ]
    [] r.pc = "follow" /\ r.changing ->
         LET h == FollowPass(r.grammar, r.terminals, r.nullable, r.first, r.follow)
         IN  [ r EXCEPT !.follow = h, !.changing = (h # r.follow) ]
    [] r.pc = "follow" /\ ~ r.changing ->
         [ r EXCEPT !.select = calculate_select(r.grammar, r.nullable, r.first, r.follow),
                    !.pc = "done" ]

\* two invocations on different grammars are about to start
InitPair ==
  /\ AnalyzerIdle
  /\ ParserIdle
  /\ \E g \in PairGrammars : \E h \in PairGrammars \ { g } :
       runs = << RunEntry(g), RunEntry(h) >>

\* A step whose passes work on one nullable set that both invocations share.
PairStepShared(i) ==
  /\ runs[i].pc \notin { "done", "raised" }
  /\ runs' = [ runs EXCEPT ![i] =
                 StepRun([ runs[i] EXCEPT !.nullable = runs[1].nullable \cup runs[2].nullable ]) ]
  /\ UNCHANGED avars
  /\ UNCHANGED pvars

\* invocation i takes its next step; the other one is where it was
PairStep(i) ==
  /\ runs[i].pc \notin { "done", "raised" }
  /\ runs' = [ runs EXCEPT ![i] = StepRun(runs[i]) ]
  /\ UNCHANGED avars
  /\ UNCHANGED pvars

NextPair == \E i \in { 1, 2 } : PairStep(i)

SpecPair == InitPair /\ [][NextPair]_vars

\* ---------------------------------------------------------------- parser
\* parser.py. A token is a pair <<terminal, value>>; the lexer attaches a value
\* to every token and never emits the end marker, which the parser produces
\* itself once the tokens are exhausted (advance, lines 41-47). The value of
\* the k-th token is the numeral of k, so that every leaf is traced to its
\* token.
JsonTerminals == { "LB", "RB", "LS", "RS", "COMMA", "COLON", "INT", "STRING" }

MaxTokens == 4

Tokenize(w) == [ k \in DOMAIN w |-> << w[k], ToString(k) >> ]

\* longer streams: objects and arrays with members, and damaged ones
Samples ==
  { << "LB", "STRING", "COLON", "INT", "RB" >>,
    << "LB", "STRING", "COLON", "INT", "COMMA", "STRING", "COLON", "STRING", "RB" >>,
    << "LB", "STRING", "COLON", "LS", "INT", "RS", "RB" >>,
    << "LS", "INT", "COMMA", "STRING", "COMMA", "LB", "RB", "RS" >>,
    << "LS", "LS", "INT", "RS", "COMMA", "INT", "RS" >>,
    << "LS", "STRING", "COLON", "INT", "RS" >>,
    << "LS", "STRING", "COLON", "INT", "COMMA", "STRING", "COLON", "LB", "RB", "RS" >>,
    << "LB", "STRING", "COLON", "INT", "COMMA", "RB" >>,
    << "LB", "STRING", "COLON", "INT", "RB", "RB" >>,
    << "LB", "STRING", "COLON", "INT", "RB", "LB", "RB" >>,
    << "LS", "INT", "COMMA", "INT", "RS", "COMMA" >>,
    << "LB", "STRING", "INT", "RB", "RB" >>,
    << "LS", "INT", "INT", "RS", "RS" >> }

TokenStreams ==
  { Tokenize(w) : w \in SeqsUpTo(JsonTerminals, MaxTokens) \cup Samples }

\* self.t before __init__ has advanced
Unset == "unset"

\* match(self.t) of parse_value, line 169: the terminal matched is the lookahead
LOOKAHEAD == "self.t"

ParserNonterminals ==
  { "keyvalue", "obj", "obj_right_set", "obj_right_arr", "members_set",
    "members_arr", "members_right_set", "members_right_arr", "value" }

\* the parse_<nonterminal> functions, lines 83-175: for each nonterminal the
\* branches of its if/elif chain in order, each with the lookaheads of its
\* test and the matches and calls of its block in order
ParserAlts ==
  [ X \in ParserNonterminals |->
      CASE X = "keyvalue" ->
             << [ la |-> { "STRING" }, body |-> << "STRING", "COLON", "value" >> ] >>
        [] X = "obj" ->
             << [ la |-> { "LB" }, body |-> << "LB", "obj_right_set" >> ],
                [ la |-> { "LS" }, body |-> << "LS", "obj_right_arr" >> ] >>
        [] X = "obj_right_set" ->
             << [ la |-> { "RB" }, body |-> << "RB" >> ],
                [ la |-> { "STRING" }, body |-> << "members_set", "RB" >> ] >>
        [] X = "obj_right_arr" ->
             << [ la |-> { "RS" }, body |-> << "RS" >> ],
                [ la |-> { "STRING", "INT", "LB", "LS" }, body |-> << "members_arr", "RS" >> ] >>
        [] X = "members_set" ->
             << [ la |-> { "STRING" }, body |-> << "keyvalue", "members_right_set" >> ] >>
        [] X = "members_arr" ->
             << [ la |-> { "STRING", "INT", "LB", "LS" },
                  body |-> << "value", "members_right_arr" >> ] >>
        [] X = "members_right_set" ->
             << [ la |-> { "COMMA" }, body |-> << "COMMA", "members_set" >> ],
                [ la |-> { "RB" }, body |-> << >> ] >>
        [] X = "members_right_arr" ->
             << [ la |-> { "COMMA" }, body |-> << "COMMA", "members_arr" >> ],
                [ la |-> { "RS" }, body |-> << >> ] >>
        [] X = "value" ->
             << [ la |-> { "STRING", "INT" }, body |-> << LOOKAHEAD >> ],
                [ la |-> { "LB", "LS" }, body |-> << "obj" >> ] >> ]

\* tokens[p] of Python for a list of length Len(tk): a negative p counts from
\* the end
PyIndex(tk, p) == IF p < 0 THEN Len(tk) + p + 1 ELSE p + 1

\* line 40 raises IndexError: the subscript is outside the list
AdvanceRaises(tk, p) == p < Len(tk) /\ PyIndex(tk, p) \notin DOMAIN tk

\* An advance that returns the value of the token it moves to.
AdvanceValueNext(tk, p) ==
  IF p + 1 < Len(tk) THEN tk[PyIndex(tk, p + 1)][2] ELSE EOF

\* advance, lines 39-42: the value it returns
AdvanceValue(tk, p) ==
  IF p < Len(tk) THEN tk[PyIndex(tk, p)][2] ELSE EOF

\* An advance that keeps the terminal of the last token once the tokens are
\* exhausted.
LookaheadAtStale(tk, p) ==
  IF p < Len(tk) THEN tk[PyIndex(tk, p)][1] ELSE tk[Len(tk)][1]

\* advance, lines 44-47: the lookahead once self.pos is p
LookaheadAt(tk, p) ==
  IF p < Len(tk) THEN tk[PyIndex(tk, p)][1] ELSE EOF

\* a call of parse_X that has not yet tested the lookahead
Frame(X) == [ nt |-> X, alt |-> 0, k |-> 1, kids |-> << >> ]

Top == stack[Len(stack)]

Pop == SubSeq(stack, 1, Len(stack) - 1)

\* the top frame with one more child, its block advanced by one statement
TopWith(c) == [ Top EXCEPT !.kids = Append(@, c), !.k = @ + 1 ]

\* A block in which a branch without statements calls its own function
\* again instead of returning.
TopBodyAgain ==
  IF ParserAlts[Top.nt][Top.alt].body = << >>
  THEN << Top.nt >>
  ELSE ParserAlts[Top.nt][Top.alt].body

\* the block the top frame runs, and its next statement
TopBody == ParserAlts[Top.nt][Top.alt].body

\* err holds what a raised SyntaxError names: lines 63-64 ("expected", the
\* terminal asked for, the terminal found) or the else branch of a
\* parse_<nonterminal> ("no rule for token", the terminal found)

\* a value returned by match is a leaf of the tree
Leaf(v) == << "leaf", v >>

\* JsonParser(tokens) is about to be constructed
InitParser ==
  /\ AnalyzerIdle
  /\ PairIdle
  /\ tokens \in TokenStreams
  /\ pos = -1
  /\ t = Unset
  /\ value = Unset
  /\ stack = << >>
  /\ result = << >>
  /\ err = << >>
  /\ ppc = "new"

\* __init__, lines 28-30: the first advance; its value is dropped. On an empty
\* list tokens[-1] raises IndexError and no parser is constructed.
Construct ==
  /\ ppc = "new"
  /\ IF AdvanceRaises(tokens, pos)
     THEN /\ ppc' = "IndexError"
          /\ UNCHANGED << pos, t, value >>
     ELSE /\ value' = AdvanceValue(tokens, pos)
          /\ pos' = pos + 1
          /\ t' = LookaheadAt(tokens, pos + 1)
          /\ ppc' = "ready"
  /\ UNCHANGED << tokens, stack, result >>
  /\ UNCHANGED err
  /\ UNCHANGED avars
  /\ UNCHANGED cvars

\* parse, line 79: the call of parse_obj
ParseStart ==
  /\ ppc = "ready"
  /\ stack' = << Frame("obj") >>
  /\ ppc' = "run"
  /\ UNCHANGED << tokens, pos, t, value, result >>
  /\ UNCHANGED err
  /\ UNCHANGED avars
  /\ UNCHANGED cvars

\* A dispatch that skips the offending token before it raises.
DispatchSkip ==
  /\ ppc = "run"
  /\ Top.alt = 0
  /\ LET alts == ParserAlts[Top.nt]
         hits == { a \in DOMAIN alts : t \in alts[a].la }
     IN  IF hits = { }
         THEN /\ ppc' = "SyntaxError"
              /\ stack' = << >>
              /\ err' = << "no rule for token", t >>
              /\ value' = AdvanceValue(tokens, pos)
              /\ pos' = pos + 1
              /\ t' = LookaheadAt(tokens, pos + 1)
         ELSE /\ stack' = [ stack EXCEPT ![Len(stack)].alt =
                              CHOOSE a \in hits : \A b \in hits : a <= b ]
              /\ UNCHANGED << ppc, err, pos, t, value >>
  /\ UNCHANGED << tokens, result >>
  /\ UNCHANGED avars
  /\ UNCHANGED cvars

\* the if/elif chain of the running parse_X: the first branch whose test holds
\* is entered, the else branch raises SyntaxError
Dispatch ==
  /\ ppc = "run"
  /\ Top.alt = 0
  /\ LET alts == ParserAlts[Top.nt]
         hits == { a \in DOMAIN alts : t \in alts[a].la }
     IN  IF hits = { }
         THEN /\ ppc' = "SyntaxError"
              /\ stack' = << >>
              /\ err' = << "no rule for token", t >>
         ELSE /\ stack' = [ stack EXCEPT ![Len(stack)].alt =
                              CHOOSE a \in hits : \A b \in hits : a <= b ]
              /\ UNCHANGED << ppc, err >>
  /\ UNCHANGED << tokens, pos, t, value, result >>
  /\ UNCHANGED avars
  /\ UNCHANGED cvars

\* A match that advances before it compares, so that a failed match has
\* consumed the token.
MatchStepConsume ==
  /\ ppc = "run"
  /\ Top.alt # 0
  /\ Top.k <= Len(TopBody)
  /\ TopBody[Top.k] \notin ParserNonterminals
  /\ LET terminal == IF TopBody[Top.k] = LOOKAHEAD THEN t ELSE TopBody[Top.k]
     IN  /\ value' = AdvanceValue(tokens, pos)
         /\ pos' = pos + 1
         /\ t' = LookaheadAt(tokens, pos + 1)
         /\ IF t = terminal
            THEN /\ stack' = [ stack EXCEPT ![Len(stack)] =
                                 TopWith(Leaf(AdvanceValue(tokens, pos))) ]
                 /\ UNCHANGED << ppc, err >>
            ELSE /\ ppc' = "SyntaxError"
                 /\ err' = << "expected", terminal, t >>
                 /\ stack' = << >>
  /\ UNCHANGED << tokens, result >>
  /\ UNCHANGED avars
  /\ UNCHANGED cvars

\* a statement c = self.match(terminal), lines 58-64, with advance inside
MatchStep ==
  /\ ppc = "run"
  /\ Top.alt # 0
  /\ Top.k <= Len(TopBody)
  /\ TopBody[Top.k] \notin ParserNonterminals
  /\ LET terminal == IF TopBody[Top.k] = LOOKAHEAD THEN t ELSE TopBody[Top.k]
     IN  IF t = terminal
         THEN /\ stack' = [ stack EXCEPT ![Len(stack)] =
                              TopWith(Leaf(AdvanceValue(tokens, pos))) ]
              /\ value' = AdvanceValue(tokens, pos)
              /\ pos' = pos + 1
              /\ t' = LookaheadAt(tokens, pos + 1)
              /\ UNCHANGED << ppc, err >>
         ELSE /\ ppc' = "SyntaxError"
              /\ err' = << "expected", terminal, t >>
              /\ stack' = << >>
              /\ UNCHANGED << pos, t, value >>
  /\ UNCHANGED << tokens, result >>
  /\ UNCHANGED avars
  /\ UNCHANGED cvars

\* a statement c = self.parse_Y(): the call
CallStep ==
  /\ ppc = "run"
  /\ Top.alt # 0
  /\ Top.k <= Len(TopBody)
  /\ TopBody[Top.k] \in ParserNonterminals
  /\ stack' = Append(stack, Frame(TopBody[Top.k]))
  /\ UNCHANGED << tokens, pos, t, value, result, ppc >>
  /\ UNCHANGED err
  /\ UNCHANGED avars
  /\ UNCHANGED cvars

\* return (X, (c1, ...)): to the caller's c = self.parse_X(), or to line 79
ReturnStep ==
  /\ ppc = "run"
  /\ Top.alt # 0
  /\ Top.k > Len(TopBody)
  /\ LET node == << Top.nt, Top.kids >>
     IN  IF Len(stack) = 1
         THEN /\ result' = node
              /\ stack' = << >>
              /\ ppc' = "eof"
         ELSE /\ stack' = [ Pop EXCEPT ![Len(stack) - 1] =
                              [ @ EXCEPT !.kids = Append(@, node), !.k = @ + 1 ] ]
              /\ UNCHANGED << result, ppc >>
  /\ UNCHANGED << tokens, pos, t, value >>
  /\ UNCHANGED err
  /\ UNCHANGED avars
  /\ UNCHANGED cvars

\* A final step that returns the tree whatever the lookahead is.
MatchEOFAny ==
  /\ ppc = "eof"
  /\ value' = AdvanceValue(tokens, pos)
  /\ pos' = pos + 1
  /\ t' = LookaheadAt(tokens, pos + 1)
  /\ ppc' = "returned"
  /\ UNCHANGED result
  /\ UNCHANGED << tokens, stack >>
  /\ UNCHANGED err
  /\ UNCHANGED avars
  /\ UNCHANGED cvars

\* parse, lines 80-81: self.match(EOF), then return result
MatchEOF ==
  /\ ppc = "eof"
  /\ IF t = EOF
     THEN /\ value' = AdvanceValue(tokens, pos)
          /\ pos' = pos + 1
          /\ t' = LookaheadAt(tokens, pos + 1)
          /\ ppc' = "returned"
          /\ UNCHANGED << result, err >>
     ELSE /\ ppc' = "SyntaxError"
          /\ err' = << "expected", EOF, t >>
          /\ result' = << >>
          /\ UNCHANGED << pos, t, value >>
  /\ UNCHANGED << tokens, stack >>
  /\ UNCHANGED avars
  /\ UNCHANGED cvars

NextParser ==
  \/ Construct
  \/ ParseStart
  \/ Dispatch
  \/ MatchStep
  \/ CallStep
  \/ ReturnStep
  \/ MatchEOF

SpecParser == InitParser /\ [][NextParser]_vars

\* the interpreter runs one statement after the other: a run that can take a
\* step takes one
SpecParserFair == InitParser /\ [][NextParser]_vars /\ WF_vars(NextParser)

\* calls of advance past the end of the tokens that a client makes
MaxExtra == 3

\* a direct call of advance, lines 39-48, on a constructed parser
AdvanceCall ==
  /\ ppc = "ready"
  /\ pos < Len(tokens) + MaxExtra
  /\ value' = AdvanceValue(tokens, pos)
  /\ pos' = pos + 1
  /\ t' = LookaheadAt(tokens, pos + 1)
  /\ UNCHANGED << tokens, stack, result, ppc >>
  /\ UNCHANGED err
  /\ UNCHANGED avars
  /\ UNCHANGED cvars

NextAdvance ==
  \/ Construct
  \/ AdvanceCall

\* a client that constructs a parser and calls advance again and again
SpecAdvance == InitParser /\ [][NextAdvance]_vars

\* parse() has returned its tree
Returned == ppc = "returned"

\* the run has ended
Ended == ppc \in { "returned", "SyntaxError", "IndexError" }

\* the terminals of the input, in order
TokenTerminals == [ k \in DOMAIN tokens |-> tokens[k][1] ]

\* the values of the input, in order
TokenValues == [ k \in DOMAIN tokens |-> tokens[k][2] ]

\* the leaves of a sequence of children from child k on, left to right
RECURSIVE LeavesOf(_, _)
LeavesOf(kids, k) ==
  IF k > Len(kids) THEN << >>
  ELSE (IF kids[k][1] = "leaf" THEN << kids[k][2] >> ELSE LeavesOf(kids[k][2], 1))
         \o LeavesOf(kids, k + 1)

\* the leaves of a tree (X, children)
Leaves(tree) == LeavesOf(tree[2], 1)

\* the rules the parse functions carry out: a branch with each lookahead that
\* enters it (match(self.t) matches that lookahead)
Instantiate(body, la) ==
  [ k \in DOMAIN body |-> IF body[k] = LOOKAHEAD THEN la ELSE body[k] ]

ParserRules ==
  { << X, Instantiate(ParserAlts[X][a].body, la) >> :
      << X, a, la >> \in { y \in ParserNonterminals \X (1..2) \X JsonTerminals :
                             /\ y[2] \in DOMAIN ParserAlts[y[1]]
                             /\ y[3] \in ParserAlts[y[1]][y[2]].la } }

\* w is derivable from the symbol X by the rules R / from the symbols of body
\* in order (no rule set used here is left recursive)
RECURSIVE Derives(_, _, _)
RECURSIVE DerivesSeq(_, _, _)
Derives(R, X, w) ==
  IF X \notin { r[1] : r \in R } THEN w = << X >>
  ELSE \E r \in R : r[1] = X /\ DerivesSeq(R, r[2], w)

DerivesSeq(R, body, w) ==
  IF body = << >> THEN w = << >>
  ELSE IF Len(body) = 1 THEN Derives(R, body[1], w)
       ELSE \E k \in 0..Len(w) :
              /\ Derives(R, body[1], SubSeq(w, 1, k))
              /\ DerivesSeq(R, Tail(body), SubSeq(w, k + 1, Len(w)))

\* ---------------------------------------------------------------- results
\* the states in which a function has returned its result
NullableReturned == \/ pc = "nullable" /\ ~ changing
                    \/ pc \in { "first", "follow", "select", "done", "raised" }

FirstDefined == pc \in { "first", "follow", "select", "done", "raised" }

FirstReturned == pc = "first" /\ ~ changing

FollowDefined == pc \in { "follow", "select", "done" }

FollowReturned == \/ pc = "follow" /\ ~ changing
                  \/ pc \in { "select", "done" }

SelectReturned == pc \in { "select", "done" }

StartSymbol == RuleHead(grammar[1])

\* the positions of a body up to and including its first symbol outside n
UpToFirstNonNullable(body, n) ==
  { k \in DOMAIN body : \A m \in 1..(k - 1) : body[m] \in n }

\* FIRST of a sequence: the union of FIRST of every symbol of the sequence up
\* to and including the first that is not nullable
FirstOfSeq(body, n, f) == UNION { f[body[k]] : k \in UpToFirstNonNullable(body, n) }

AllNullable(body, n) == \A k \in DOMAIN body : body[k] \in n

Suffix(body, k) == SubSeq(body, k + 1, Len(body))

\* ---------------------------------------------------------------- C1
\* C1: on a non-empty grammar the verdict is True (no conflict reported) iff
\* there is no pair of rule indices i < j with the same head whose SELECT sets
\* (as returned by calculate_select) intersect.
C1_VerdictIffNoIndexPair ==
  pc = "done" =>
    ( ll1 <=> ~ \E i, j \in DOMAIN grammar :
                  /\ i < j
                  /\ RuleHead(grammar[i]) = RuleHead(grammar[j])
                  /\ (select[grammar[i]] \cap select[grammar[j]]) # { } )

\* a grammar reported LL(1) although two rules share a head, and two rules
\* with different heads have intersecting SELECT sets
C1_Witness ==
  /\ pc = "done"
  /\ ll1
  /\ \E i, j \in DOMAIN grammar :
       i < j /\ RuleHead(grammar[i]) = RuleHead(grammar[j])
  /\ \E i, j \in DOMAIN grammar :
       /\ RuleHead(grammar[i]) # RuleHead(grammar[j])
       /\ (select[grammar[i]] \cap select[grammar[j]]) # { }

\* ---------------------------------------------------------------- C2
\* C2: the verdict is False iff two rules that differ as (head, body) values
\* share a head and have intersecting SELECT sets; a rule listed twice is one
\* rule, not a pair.
C2_VerdictIffDistinctRuleValues ==
  pc = "done" =>
    ( (~ ll1) <=> \E i, j \in DOMAIN grammar :
                    /\ grammar[i] # grammar[j]
                    /\ RuleHead(grammar[i]) = RuleHead(grammar[j])
                    /\ (select[grammar[i]] \cap select[grammar[j]]) # { } )

\* ---------------------------------------------------------------- C3
\* C3: for every rule (A, alpha), SELECT is exactly FIRST(alpha), the union
\* of FIRST of the symbols of alpha up to and including the first that is not
\* nullable, together with FOLLOW(A) when alpha is nullable; nothing else is
\* in it.
C3_SelectExact ==
  SelectReturned =>
    \A r \in Range(grammar) :
      select[r] = FirstOfSeq(RuleBody(r), nullable, first)
                    \cup (IF AllNullable(RuleBody(r), nullable)
                          THEN follow[RuleHead(r)] ELSE { })

\* a rule whose body starts with a nullable symbol, goes on after its first
\* non-nullable symbol, and the later symbol's FIRST stays out of SELECT
C3_Witness ==
  /\ SelectReturned
  /\ \E r \in Range(grammar) : \E k \in DOMAIN RuleBody(r) :
       /\ RuleBody(r)[1] \in nullable
       /\ k \notin UpToFirstNonNullable(RuleBody(r), nullable)
       /\ first[RuleBody(r)[k]] # { }
       /\ (first[RuleBody(r)[k]] \cap select[r]) = { }
       /\ select[r] # { }

\* ---------------------------------------------------------------- C4
\* C4: SELECT of a rule contains FOLLOW of its head when the body is empty or
\* all nullable, and otherwise contains FIRST of the body's first non-nullable
\* symbol.
C4_SelectContains ==
  SelectReturned =>
    \A r \in Range(grammar) :
      IF AllNullable(RuleBody(r), nullable)
      THEN follow[RuleHead(r)] \subseteq select[r]
      ELSE LET x == CHOOSE k \in DOMAIN RuleBody(r) :
                      /\ RuleBody(r)[k] \notin nullable
                      /\ \A m \in 1..(k - 1) : RuleBody(r)[m] \in nullable
           IN  first[RuleBody(r)[x]] \subseteq select[r]

\* both cases in one grammar: a non-empty nullable body whose head has a
\* non-empty FOLLOW, and a body whose first non-nullable symbol comes after a
\* nullable one
C4_Witness ==
  /\ SelectReturned
  /\ \E r \in Range(grammar) :
       /\ RuleBody(r) # << >>
       /\ AllNullable(RuleBody(r), nullable)
       /\ follow[RuleHead(r)] # { }
  /\ \E r \in Range(grammar) :
       /\ ~ AllNullable(RuleBody(r), nullable)
       /\ RuleBody(r)[1] \in nullable
       /\ select[r] # { }

\* ---------------------------------------------------------------- C5
\* C5: the FOLLOW mapping returned is closed under both rules: for every rule
\* A -> alpha B beta with B a nonterminal, FIRST(beta) is inside FOLLOW(B)
\* when beta is not empty, and FOLLOW(A) is inside FOLLOW(B) when beta is
\* empty or nullable.
C5_FollowClosed ==
  FollowReturned =>
    \A i \in DOMAIN grammar : \A k \in DOMAIN RuleBody(grammar[i]) :
      LET A == RuleHead(grammar[i])
          B == RuleBody(grammar[i])[k]
          beta == Suffix(RuleBody(grammar[i]), k)
      IN  B \in nonterminals =>
            /\ beta # << >> => FirstOfSeq(beta, nullable, first) \subseteq follow[B]
            /\ AllNullable(beta, nullable) => follow[A] \subseteq follow[B]

\* a nonterminal followed by a nullable symbol and then a symbol whose FIRST
\* reaches it only across that nullable symbol
C5_Witness ==
  /\ FollowReturned
  /\ \E i \in DOMAIN grammar : \E k \in DOMAIN RuleBody(grammar[i]) :
       LET body == RuleBody(grammar[i])
       IN  /\ body[k] \in nonterminals
           /\ k + 2 <= Len(body)
           /\ body[k + 1] \in nullable
           /\ first[body[k + 2]] # { }
           /\ (first[body[k + 2]] \cap first[body[k + 1]]) = { }
           /\ \A j \in DOMAIN grammar : \A m \in DOMAIN RuleBody(grammar[j]) :
                (j # i /\ RuleBody(grammar[j])[m] = body[k]) =>
                   m = Len(RuleBody(grammar[j]))

\* ---------------------------------------------------------------- C6
\* Longest sentential form that is expanded.  With at most three rules of
\* RulePool every adjacency of a nonterminal and a terminal (or the end
\* marker) that occurs in some sentential form occurs in one of length <= 7.
MaxFormLen == 7

\* form with the nonterminal at position k replaced by body
Subst(form, k, body) ==
  SubSeq(form, 1, k - 1) \o body \o SubSeq(form, k + 1, Len(form))

\* the forms one derivation step away from form
OneStep(g, form) ==
  { Subst(form, p[1], RuleBody(g[p[2]])) :
      p \in { q \in (DOMAIN form) \X (DOMAIN g) : form[q[1]] = RuleHead(g[q[2]]) } }

\* the sentential forms of length <= MaxFormLen derivable from the forms of D
RECURSIVE SententialForms(_, _)
SententialForms(g, D) ==
  LET new == { f \in UNION { OneStep(g, d) : d \in D } : Len(f) <= MaxFormLen }
  IN  IF new \subseteq D THEN D ELSE SententialForms(g, D \cup new)

\* the symbols that immediately follow A in a form derivable from the start
\* symbol followed by the end marker
DerivedFollow(g, A) ==
  UNION { { f[k + 1] : k \in { m \in 1..(Len(f) - 1) : f[m] = A } } :
            f \in SententialForms(g, { << RuleHead(g[1]), EOF >> }) }

\* C6: for every nonterminal A and every terminal or end marker t, t is in
\* FOLLOW(A) iff some sentential form derivable from the start symbol
\* followed by the end marker contains A immediately followed by t.
C6_FollowIffDerivable ==
  FollowReturned =>
    \A A \in nonterminals : \A tm \in terminals \cup { EOF } :
      tm \in follow[A] <=> tm \in DerivedFollow(grammar, A)

\* ---------------------------------------------------------------- C7
\* C7: on a non-empty grammar FOLLOW of the start symbol contains EOF from
\* its initialisation on, through every pass and in the returned mapping.
C7_StartFollowHasEOF ==
  FollowDefined => EOF \in follow[StartSymbol]

\* the passes have written to FOLLOW(start): it holds more than EOF
C7_Witness ==
  /\ FollowReturned
  /\ EOF \in follow[StartSymbol]
  /\ follow[StartSymbol] # { EOF }
  /\ \E i \in DOMAIN grammar : \E k \in DOMAIN RuleBody(grammar[i]) :
       /\ RuleBody(grammar[i])[k] = StartSymbol
       /\ RuleHead(grammar[i]) # StartSymbol
       /\ AllNullable(Suffix(RuleBody(grammar[i]), k), nullable)

\* ---------------------------------------------------------------- C8
\* F is closed: for every rule A -> X1..Xn and every i with X1..Xi-1 all
\* nullable, F(Xi) is inside F(A)
FirstClosed(g, n, F) ==
  \A i \in DOMAIN g : \A k \in DOMAIN RuleBody(g[i]) :
    AllNullable(SubSeq(RuleBody(g[i]), 1, k - 1), n) =>
      F[RuleBody(g[i])[k]] \subseteq F[RuleHead(g[i])]

\* C8: the FIRST mapping returned is the least fixed point: it is closed, and
\* it is inside every closed mapping that gives each terminal t the set {t}
\* (so every terminal of FIRST(A) is justified by a rule position).
C8_FirstLeastFixedPoint ==
  FirstReturned =>
    /\ FirstClosed(grammar, nullable, first)
    /\ \A F \in [ nonterminals -> SUBSET terminals ] :
         LET FF == [ x \in terminals \cup nonterminals |->
                       IF x \in terminals THEN { x } ELSE F[x] ]
         IN  FirstClosed(grammar, nullable, FF) =>
               \A A \in nonterminals : first[A] \subseteq FF[A]

\* a FIRST set that got a terminal across a nullable prefix, next to a
\* nonterminal whose FIRST set stays smaller than the terminal universe
C8_Witness ==
  /\ FirstReturned
  /\ \E i \in DOMAIN grammar : \E k \in DOMAIN RuleBody(grammar[i]) :
       /\ k > 1
       /\ AllNullable(SubSeq(RuleBody(grammar[i]), 1, k - 1), nullable)
       /\ first[RuleBody(grammar[i])[k]] # { }
  /\ \E A \in nonterminals : first[A] # { } /\ first[A] # terminals

\* ---------------------------------------------------------------- C9
\* C9: FIRST of every terminal t of the grammar is {t}, at initialisation,
\* after every pass and in the returned mapping.
C9_TerminalFirstIsItself ==
  FirstDefined => \A tm \in terminals : first[tm] = { tm }

\* the passes have run and filled a head's set with two terminals
C9_Witness ==
  /\ FirstReturned
  /\ \E A \in nonterminals : Cardinality(first[A]) >= 2
  /\ \A tm \in terminals : first[tm] = { tm }

\* ---------------------------------------------------------------- C10
\* N is closed: the head of every rule whose body lies inside N is in N
NullableClosed(g, N) ==
  \A i \in DOMAIN g : Range(RuleBody(g[i])) \subseteq N => RuleHead(g[i]) \in N

\* C10: the set returned holds every head of an epsilon rule, holds a
\* nonterminal iff one of its rules has a body made of members of the set, is
\* the least such set, and holds no symbol that heads no rule.
C10_NullableLeast ==
  NullableReturned =>
    /\ \A i \in DOMAIN grammar :
         RuleBody(grammar[i]) = << >> => RuleHead(grammar[i]) \in nullable
    /\ \A A \in nonterminals :
         A \in nullable <=>
           \E i \in DOMAIN grammar :
             RuleHead(grammar[i]) = A /\ Range(RuleBody(grammar[i])) \subseteq nullable
    /\ \A N \in SUBSET (terminals \cup nonterminals) :
         NullableClosed(grammar, N) => nullable \subseteq N
    /\ nullable \subseteq nonterminals

\* a pass added a head, while a nonterminal with a circular rule stays out
C10_Witness ==
  /\ NullableReturned
  /\ nullable # NullableInit(grammar)
  /\ \E i \in DOMAIN grammar :
       /\ RuleBody(grammar[i]) = << RuleHead(grammar[i]) >>
       /\ RuleHead(grammar[i]) \notin nullable

\* ---------------------------------------------------------------- C11
\* C11: the set calculate_nullable returns is a fixed point of the pass: one
\* more full pass over all rules adds nothing, no rule has its whole body in
\* the set and its head outside.
C11_NullableFixedPoint ==
  NullableReturned =>
    /\ NullablePass(grammar, nullable) = nullable
    /\ ~ \E i \in DOMAIN grammar :
           /\ Range(RuleBody(grammar[i])) \subseteq nullable
           /\ RuleHead(grammar[i]) \notin nullable

\* the first pass was not enough: a head entered the set in a later pass
C11_Witness ==
  /\ NullableReturned
  /\ NullablePass(grammar, NullableInit(grammar)) # nullable

\* ---------------------------------------------------------------- C12
\* i < j: the order of the reports
PairBefore(p, q) == p[1] < q[1] \/ (p[1] = q[1] /\ p[2] < q[2])

\* C12: the scan reports exactly the pairs of positions i < j of same-headed
\* rules with intersecting SELECT sets, each once, in ascending order of i and
\* then of j; it goes on after the first conflict.
C12_ReportsExactlyTheConflicts ==
  pc = "done" =>
    /\ \A i, j \in DOMAIN grammar :
         ( /\ i < j
           /\ RuleHead(grammar[i]) = RuleHead(grammar[j])
           /\ (select[grammar[i]] \cap select[grammar[j]]) # { } )
         <=> \E k \in DOMAIN conflicts : conflicts[k] = << i, j >>
    /\ \A k \in DOMAIN conflicts :
         /\ conflicts[k][1] \in DOMAIN grammar
         /\ conflicts[k][2] \in DOMAIN grammar
    /\ \A k, m \in DOMAIN conflicts :
         k < m => PairBefore(conflicts[k], conflicts[m])

\* three reports, two of them for the same i
C12_Witness ==
  /\ pc = "done"
  /\ Len(conflicts) = 3
  /\ conflicts[1][1] = conflicts[2][1]

\* ---------------------------------------------------------------- C13
\* C13: on every finite rule sequence, the empty one included, every function
\* of the analysis completes and returns without raising.
C13_NeverRaises == pc # "raised"

\* ---------------------------------------------------------------- C14
\* C14: for grammar_recitation nullable = {EP}, FIRST(E) = FIRST(T) =
\* {ID, LP}, FOLLOW(EP) contains FOLLOW(E), and the grammar is reported
\* LL(1).
C14_Recitation ==
  (pc = "done" /\ grammar = grammar_recitation) =>
    /\ nullable = { "EP" }
    /\ first["E"] = { "ID", "LP" }
    /\ first["T"] = { "ID", "LP" }
    /\ follow["E"] \subseteq follow["EP"]
    /\ \A i, j \in DOMAIN grammar :
         (i < j /\ RuleHead(grammar[i]) = RuleHead(grammar[j])) =>
            (select[grammar[i]] \cap select[grammar[j]]) = { }
    /\ ll1

\* the analysis of grammar_recitation has ended, FOLLOW(E) is not empty
C14_Witness ==
  /\ pc = "done"
  /\ grammar = grammar_recitation
  /\ follow["E"] # { }

\* ---------------------------------------------------------------- C15
\* C15: grammar_json_4a (left recursive members) is reported not LL(1), its
\* right-recursive rewrite grammar_json_4b is reported LL(1).
C15_JsonVerdicts ==
  pc = "done" =>
    /\ grammar = grammar_json_4a => ~ ll1
    /\ grammar = grammar_json_4b => ll1

\* the analysis of grammar_json_4a has ended with a conflict between the two
\* members rules
C15_Witness ==
  /\ pc = "done"
  /\ grammar = grammar_json_4a
  /\ \E k \in DOMAIN conflicts : conflicts[k] = << 3, 4 >>

\* ---------------------------------------------------------------- C16
\* C16: when parse returns a tree, its leaves read left to right are the
\* values of the input tokens, in order, none missing, none added, and the end
\* marker is not among them.
C16_RoundTrip ==
  Returned =>
    /\ Leaves(result) = TokenValues
    /\ \A k \in DOMAIN Leaves(result) : Leaves(result)[k] # EOF

\* a tree of a stream with nested members has been returned
C16_Witness ==
  /\ Returned
  /\ Len(tokens) >= 7
  /\ Len(Leaves(result)) >= 7

\* ---------------------------------------------------------------- C17
\* C17: for every token sequence, the empty one included, JsonParser(tokens)
\* followed by parse() ends in one of two ways: a tree is returned or
\* SyntaxError is raised.
C17_TreeOrSyntaxError ==
  Ended => ppc \in { "returned", "SyntaxError" }

\* ---------------------------------------------------------------- C18
\* a proper, non-empty prefix of the input is a complete obj, by the rules of
\* the parser or by grammar_json_6
CompleteObjThenMore ==
  \E k \in 1..(Len(tokens) - 1) :
     \/ Derives(ParserRules, "obj", SubSeq(TokenTerminals, 1, k))
     \/ Derives(Range(grammar_json_6), "obj", SubSeq(TokenTerminals, 1, k))

\* C18: a tree is returned only with the end marker as lookahead after obj:
\* on success every token has been consumed, and a complete obj followed by
\* further tokens ends in SyntaxError.
C18_EndMarkerRequired ==
  /\ Returned =>
       /\ pos = Len(tokens) + 1
       /\ t = EOF
       /\ Len(Leaves(result)) = Len(tokens)
  /\ (Ended /\ CompleteObjThenMore) => ppc = "SyntaxError"

\* an object with a member, followed by further tokens, has been rejected
C18_Witness ==
  /\ ppc = "SyntaxError"
  /\ Len(tokens) >= 6
  /\ CompleteObjThenMore

\* ---------------------------------------------------------------- C19
\* the lookaheads under which the parser carries out the rule r
ParserSelects(r) ==
  { la \in JsonTerminals \cup { EOF } :
      \E a \in DOMAIN ParserAlts[RuleHead(r)] :
         /\ la \in ParserAlts[RuleHead(r)][a].la
         /\ Instantiate(ParserAlts[RuleHead(r)][a].body, la) = RuleBody(r) }

\* C19: for every nonterminal of the parser and each of its alternatives, the
\* lookaheads that select the alternative are the SELECT set calculate_select
\* computes for the corresponding rule of grammar_json_6.
C19_DispatchIsSelect ==
  (pc = "done" /\ grammar = grammar_json_6) =>
    /\ ParserRules \subseteq Range(grammar)
    /\ \A r \in Range(grammar) :
         /\ RuleHead(r) \in ParserNonterminals
         /\ ParserSelects(r) = select[r]

\* ---------------------------------------------------------------- C20
\* the terminal of the token a leaf value comes from
TerminalOf(v) == tokens[CHOOSE k \in DOMAIN tokens : tokens[k][2] = v][1]

\* the symbols of the children of a node, in order
ChildSymbols(kids) ==
  [ k \in DOMAIN kids |->
      IF kids[k][1] = "leaf" THEN TerminalOf(kids[k][2]) ELSE kids[k][1] ]

\* every node of the tree, from child k of kids on, is an instance of a rule of R
RECURSIVE NodesAreRules(_, _, _)
NodesAreRules(R, kids, k) ==
  IF k > Len(kids) THEN TRUE
  ELSE /\ \/ kids[k][1] = "leaf"
          \/ /\ << kids[k][1], ChildSymbols(kids[k][2]) >> \in R
             /\ NodesAreRules(R, kids[k][2], 1)
       /\ NodesAreRules(R, kids, k + 1)

\* C20: parse returns a tree exactly when the terminals of the input are
\* derivable from obj in grammar_json_6, and every node of a returned tree is
\* an instance of a rule of grammar_json_6.
C20_ParserOfGrammar6 ==
  (Ended /\ ppc # "IndexError") =>
    /\ Returned <=> Derives(Range(grammar_json_6), "obj", TokenTerminals)
    /\ Returned => NodesAreRules(Range(grammar_json_6), << result >>, 1)

\* ---------------------------------------------------------------- C21
\* a parser object exists: __init__ has returned
Constructed == ppc \notin { "idle", "new", "IndexError" }

\* C21: after construction and after every advance the lookahead is the
\* terminal of tokens[pos] when pos < len(tokens) and EOF otherwise; once the
\* tokens are exhausted every further advance returns EOF and leaves the
\* lookahead at EOF, however often it is called.
C21_LookaheadTracksPos ==
  Constructed =>
    /\ pos >= 0
    /\ t = (IF pos < Len(tokens) THEN tokens[pos + 1][1] ELSE EOF)
    /\ pos > Len(tokens) => (value = EOF /\ t = EOF)

\* advance has been called three times after the last token was consumed
C21_Witness ==
  /\ Constructed
  /\ Len(tokens) >= 2
  /\ pos = Len(tokens) + 3

\* ---------------------------------------------------------------- C22
\* the next statement of the run is a call of match
MatchCalled ==
  \/ ppc = "eof"
  \/ /\ ppc = "run"
     /\ Top.alt # 0
     /\ Top.k <= Len(TopBody)
     /\ TopBody[Top.k] \notin ParserNonterminals

\* the terminal that call is given
MatchArg ==
  IF ppc = "eof" THEN EOF
  ELSE IF TopBody[Top.k] = LOOKAHEAD THEN t ELSE TopBody[Top.k]

\* C22: match(terminal) with the lookahead equal to terminal moves pos on by
\* one, returns the value of the token that was the lookahead (EOF when the
\* tokens are exhausted) and sets the lookahead to the terminal of the next
\* token or to EOF; with a different lookahead it raises a SyntaxError that
\* names the expected and the found terminal and leaves pos and the lookahead
\* as they were.
C22_Match ==
  [][ MatchCalled =>
        IF t = MatchArg
        THEN /\ pos' = pos + 1
             /\ value' = (IF pos < Len(tokens) THEN tokens[pos + 1][2] ELSE EOF)
             /\ t' = (IF pos + 1 < Len(tokens) THEN tokens[pos + 2][1] ELSE EOF)
             /\ ppc' # "SyntaxError"
        ELSE /\ ppc' = "SyntaxError"
             /\ err' = << "expected", MatchArg, t >>
             /\ pos' = pos
             /\ t' = t ]_vars

\* a match has failed after three tokens were matched
C22_Witness ==
  /\ ppc = "SyntaxError"
  /\ Len(err) = 3
  /\ err[1] = "expected"
  /\ pos >= 3
  /\ value = tokens[pos][2]

\* ---------------------------------------------------------------- C23
\* x is the head of a rule / x occurs in the body of a rule
IsHead(x) == \E i \in DOMAIN grammar : grammar[i][1] = x

InBody(x) == \E i \in DOMAIN grammar : \E k \in DOMAIN grammar[i][2] : grammar[i][2][k] = x

\* every symbol the model can meet
SymbolUniverse ==
  terminals \cup nonterminals \cup { EOF }
    \cup { r[1] : r \in RulePool }
    \cup UNION { Range(r[2]) : r \in RulePool }

\* C23: find_terminals_and_nonterminals partitions the symbols: a symbol is a
\* nonterminal iff it is the head of a rule, a terminal iff it occurs in a
\* body and heads no rule; the sets are disjoint and hold every symbol of the
\* grammar between them.
C23_SymbolsPartitioned ==
  pc # "start" =>
    /\ \A x \in SymbolUniverse :
         /\ x \in nonterminals <=> IsHead(x)
         /\ x \in terminals <=> (InBody(x) /\ ~ IsHead(x))
         /\ (IsHead(x) \/ InBody(x)) => x \in terminals \cup nonterminals
    /\ terminals \cap nonterminals = { }

\* the symbols of a grammar with a head that also occurs in a body, and with
\* a terminal, have been classified
C23_Witness ==
  /\ pc # "start"
  /\ \E x \in nonterminals : InBody(x)
  /\ terminals # { }

\* ---------------------------------------------------------------- C24
\* the results of the analysis of g run alone, as a record
Alone(g) ==
  LET sy == find_terminals_and_nonterminals(g)
      n  == calculate_nullable(g)
      f  == calculate_first(sy[1], sy[2], g, n)
      fo == calculate_follow(sy[1], sy[2], g, n, f)
  IN  [ nullable |-> n, first |-> f, follow |-> fo,
        select |-> calculate_select(g, n, f, fo) ]

\* C24: two invocations on different grammars whose steps interleave in any
\* way each end with the nullable, FIRST, FOLLOW and SELECT results of the
\* analysis run alone, and no step of one changes what the other holds.
C24_Independent ==
  /\ [] (\A i \in DOMAIN runs :
           runs[i].pc = "done" =>
             /\ runs[i].nullable = Alone(runs[i].grammar).nullable
             /\ runs[i].first = Alone(runs[i].grammar).first
             /\ runs[i].follow = Alone(runs[i].grammar).follow
             /\ runs[i].select = Alone(runs[i].grammar).select)
  /\ [][ \A i \in DOMAIN runs : \A j \in DOMAIN runs \ { i } :
           runs'[i] # runs[i] => runs'[j] = runs[j] ]_vars

\* both invocations have ended, on grammars that name nonterminals alike and
\* have different nullable sets
C24_Witness ==
  /\ runs # << >>
  /\ runs[1].pc = "done"
  /\ runs[2].pc = "done"
  /\ runs[1].nullable # runs[2].nullable
  /\ runs[1].nonterminals \cap runs[2].nonterminals # { }

\* ---------------------------------------------------------------- C25
\* the step to come belongs to the call of calculate_first / calculate_follow /
\* calculate_select / to the scan
InFirstCall == (pc = "nullable" /\ ~ changing) \/ (pc = "first" /\ changing)

InFollowCall == (pc = "first" /\ ~ changing) \/ (pc = "follow" /\ changing)

InSelectCall == pc = "follow" /\ ~ changing

InScan == pc = "select"

\* C25: no call modifies the grammar; calculate_first leaves nullable as it
\* is, calculate_follow leaves nullable and FIRST, calculate_select leaves
\* nullable, FIRST and FOLLOW; so each call repeated on the inputs it had
\* returns a result equal to the one it returned.
C25_InputsUnchanged ==
  /\ [][ /\ grammar' = grammar
         /\ pc # "start" => (terminals' = terminals /\ nonterminals' = nonterminals)
         /\ InFirstCall => nullable' = nullable
         /\ InFollowCall => (nullable' = nullable /\ first' = first)
         /\ InSelectCall => (nullable' = nullable /\ first' = first /\ follow' = follow)
         /\ InScan => (nullable' = nullable /\ first' = first /\ follow' = follow
                         /\ select' = select) ]_vars
  /\ [] (pc = "done" =>
           /\ << terminals, nonterminals >> = find_terminals_and_nonterminals(grammar)
           /\ nullable = calculate_nullable(grammar)
           /\ first = calculate_first(terminals, nonterminals, grammar, nullable)
           /\ follow = calculate_follow(terminals, nonterminals, grammar, nullable, first)
           /\ select = calculate_select(grammar, nullable, first, follow))

\* an analysis has ended in which every call had something to add: a nullable
\* head, and a rule whose SELECT set holds more than the FIRST set of its
\* first body symbol
C25_Witness ==
  /\ pc = "done"
  /\ nullable # { }
  /\ \E r \in Range(grammar) :
       /\ RuleBody(r) # << >>
       /\ select[r] # first[RuleBody(r)[1]]

\* ---------------------------------------------------------------- C26
\* every set of the mapping g is inside the set of h for the same key
MapInside(g, h) ==
  /\ DOMAIN g = DOMAIN h
  /\ \A x \in DOMAIN g : g[x] \subseteq h[x]

\* C26: the three loops end. Every pass but the last strictly enlarges a
\* working set, no pass takes an element away, the sets stay inside the
\* symbols of the grammar (with EOF for FOLLOW), and the analysis reaches its
\* end.
C26_LoopsTerminate ==
  /\ [][ /\ (pc = "nullable" /\ pc' = "nullable") =>
              /\ nullable \subseteq nullable'
              /\ nullable' \subseteq nonterminals
              /\ changing' => nullable' # nullable
         /\ (pc = "first" /\ pc' = "first") =>
              /\ MapInside(first, first')
              /\ \A x \in DOMAIN first' : first'[x] \subseteq terminals
              /\ changing' => first' # first
         /\ (pc = "follow" /\ pc' = "follow") =>
              /\ MapInside(follow, follow')
              /\ \A x \in DOMAIN follow' : follow'[x] \subseteq terminals \cup { EOF }
              /\ changing' => follow' # follow ]_vars
  /\ <> (pc \in { "done", "raised" })

\* the FOLLOW loop after a pass that added something, before another pass that
\* will add something
C26_Witness ==
  /\ pc = "follow"
  /\ changing
  /\ follow # FollowInit(grammar, nonterminals)
  /\ FollowPass(grammar, terminals, nullable, first, follow) # follow

\* ---------------------------------------------------------------- C27
\* grammars up to this length are taken in every order
MaxPermRules == 4

\* the orders in which the n rules of a grammar are taken: all of them for a
\* short grammar; for a long one the exchanges of two neighbours and the
\* reversal of the rules after the first
Orders(n) ==
  IF n <= MaxPermRules
  THEN { p \in [ 1..n -> 1..n ] : \A i, j \in 1..n : i # j => p[i] # p[j] }
  ELSE { [ k \in 1..n |-> IF k = i THEN i + 1 ELSE IF k = i + 1 THEN i ELSE k ] :
           i \in 1..(n - 1) }
         \cup { [ k \in 1..n |-> IF k = 1 THEN 1 ELSE n + 2 - k ] }

\* the reorderings of g that keep the head of the first rule
Reorderings(g) ==
  { h \in { [ k \in DOMAIN g |-> g[p[k]] ] : p \in Orders(Len(g)) } :
      RuleHead(h[1]) = RuleHead(g[1]) }

\* a pass of calculate_follow that applies rule (b) before rule (a)
RECURSIVE FollowPassFromBA(_, _, _, _, _, _)
FollowPassFromBA(g, i, ts, n, f, fo) ==
  IF i > Len(g) THEN fo
  ELSE LET fr == FollowAFrom(g[i], 1, ts, n, FollowBFrom(g[i], 1, ts, n, f, fo))
       IN  IF fr = fo THEN FollowPassFromBA(g, i + 1, ts, n, f, fo)
           ELSE FollowPassFromBA(g, i + 1, ts, n, f, fr)

RECURSIVE FollowLoopBA(_, _, _, _, _)
FollowLoopBA(g, ts, n, f, fo) ==
  LET h == FollowPassFromBA(g, 1, ts, n, f, fo)
  IN  IF h = fo THEN fo ELSE FollowLoopBA(g, ts, n, f, h)

\* C27: the results do not depend on the order of processing. Every
\* reordering of the rules that keeps the head of the first rule gives the
\* same nullable, FIRST, FOLLOW and SELECT and the same verdict, and so does
\* a FOLLOW pass that applies rule (b) before rule (a).
C27_OrderIndependent ==
  pc = "done" =>
    /\ \A h \in Reorderings(grammar) :
         /\ Alone(h).nullable = nullable
         /\ Alone(h).first = first
         /\ Alone(h).follow = follow
         /\ Alone(h).select = select
         /\ (Scan(h, Alone(h).select) = << >>) <=> ll1
    /\ FollowLoopBA(grammar, terminals, nullable, first,
                    FollowInit(grammar, nonterminals)) = follow

\* the analysis of a grammar with a reordering of its own has ended: another
\* rule can come first, and the FOLLOW loop took more than one pass
C27_Witness ==
  /\ pc = "done"
  /\ \E h \in Reorderings(grammar) : h # grammar /\ h[1] # grammar[1]
  /\ FollowPass(grammar, terminals, nullable, first,
                FollowInit(grammar, nonterminals)) # follow

\* ---------------------------------------------------------------- C28
\* EOF occurs in no rule of the grammar
EofFree == ~ IsHead(EOF) /\ ~ InBody(EOF)

\* B stands in a rule before a nullable (or empty) rest, and the head of that
\* rule has EOF in its FOLLOW set
EofHandedOn(B) ==
  \E i \in DOMAIN grammar : \E k \in DOMAIN grammar[i][2] :
     /\ grammar[i][2][k] = B
     /\ \A m \in (k + 1)..Len(grammar[i][2]) : grammar[i][2][m] \in nullable
     /\ EOF \in follow[grammar[i][1]]

RECURSIVE StackLeaves(_)
StackLeaves(n) ==
  IF n = 0 THEN << >>
  ELSE StackLeaves(n - 1) \o LeavesOf(stack[n].kids, 1)

\* the running call has just been entered: its if/elif chain is next
AtDispatch == ppc = "run" /\ Top.alt = 0

\* C29: the tokens are never modified; pos never decreases and changes only by
\* +1, inside the advance of __init__ or of a match; the values matched so
\* far are the values of the tokens before pos, each once and in input order;
\* a call leaves pos alone on entry and when its dispatch raises SyntaxError.
C29_NoBacktracking ==
  /\ [](ppc = "run" => /\ pos \in 0..Len(tokens)
                       /\ StackLeaves(Len(stack)) = SubSeq(TokenValues, 1, pos))
  /\ [](ppc = "eof" => /\ pos \in 0..Len(tokens)
                       /\ Leaves(result) = SubSeq(TokenValues, 1, pos))
  /\ [][ /\ tokens' = tokens
         /\ pos' \in { pos, pos + 1 }
         /\ pos' # pos => (ppc = "new" \/ (MatchCalled /\ t = MatchArg))
         /\ Len(stack') > Len(stack) => pos' = pos
         /\ AtDispatch => pos' = pos
         /\ (AtDispatch /\ ppc' = "SyntaxError") => (t' = t /\ value' = value) ]_vars

\* a call entered after three tokens were matched has raised at its dispatch
C29_Witness ==
  /\ ppc = "SyntaxError"
  /\ err[1] = "no rule for token"
  /\ pos >= 3
  /\ pos < Len(tokens)

\* ---------------------------------------------------------------- C30
\* the calls of parse functions that built children k.. of a sequence of
\* children
RECURSIVE NodesOf(_, _)
NodesOf(kids, k) ==
  IF k > Len(kids) THEN 0
  ELSE (IF kids[k][1] = "leaf" THEN 0 ELSE 1 + NodesOf(kids[k][2], 1))
         + NodesOf(kids, k + 1)

\* the calls made so far that are in progress in frames 1..n or have returned
\* into one of them
RECURSIVE CallsMade(_)
CallsMade(n) ==
  IF n = 0 THEN 0
  ELSE CallsMade(n - 1) + 1 + NodesOf(stack[n].kids, 1)

\* between two calls of the same parse function that are both in progress a
\* token has been matched
CyclesConsume ==
  \A i \in DOMAIN stack : \A j \in DOMAIN stack :
     (i < j /\ stack[i].nt = stack[j].nt) =>
        \E m \in i..(j - 1) : LeavesOf(stack[m].kids, 1) # << >>

\* C30: parse terminates on every token sequence: two nested calls of one
\* parse function have a matched token between them, the calls made, nested
\* and sequential, are bounded by the number of tokens consumed (at most four
\* to a token, and the first), and every run ends with the tree returned or
\* with an exception raised.
C30_ParseTerminates ==
  /\ [](ppc = "run" => /\ CyclesConsume
                       /\ Len(stack) <= CallsMade(Len(stack))
                       /\ CallsMade(Len(stack)) <= 4 * pos + 1
                       /\ pos <= Len(tokens))
  /\ [](ppc \in { "eof", "returned" } =>
          1 + NodesOf(result[2], 1) <= 4 * Len(tokens) + 1)
  /\ <>Ended

\* a parse that went twice round the cycle obj, obj_right_arr, members_arr,
\* value has returned: seven calls on four tokens
C30_Witness ==
  /\ Returned
  /\ Len(tokens) = 4
  /\ 1 + NodesOf(result[2], 1) >= 7

====
